---- MODULE Spec2Model ----
(***************************************************************************)
(* SuperPi: the two pi programs of the repository.                         *)
(*   src/src/superpi.c  Gauss-Legendre (iterative) kernel, version 5.0.0   *)
(*   src/superpi.c      Machin arctangent (series) kernel, version 4.0.0   *)
(* Both define calculate_pi_digits(digits, result) and a main around it.   *)
(*                                                                         *)
(* The arithmetic provider (GMP's mpf_t) is outside the repository.  Its   *)
(* values are modelled as signed fixed-point numbers with WorkLimbs limbs   *)
(* of three decimal digits after the point and one limb before it, every   *)
(* operation truncating toward zero, as mpf does.                          *)
(***************************************************************************)
EXTENDS Integers, Sequences, FiniteSets, TLC

(***************************************************************************)
(* Program constants.                                                      *)
(***************************************************************************)
DEFAULT_DIGITS == 1000000
MAX_DIGITS == 10000000
PrecMargin == 10000
ExtraTerms == 1000

(***************************************************************************)
(* Bounds of the model.                                                    *)
(***************************************************************************)
WorkLimbs == 32

(***************************************************************************)
(* Fixed-point magnitudes: a tuple of L limbs, least significant first,    *)
(* denoting  (SUM m[i] * B^(i-1)) / B^WorkLimbs.                           *)
(***************************************************************************)
B == 10 ^ 3
L == WorkLimbs + 1
FracDigits == 3 * WorkLimbs

Min(x, y) == IF x < y THEN x ELSE y
Max(x, y) == IF x > y THEN x ELSE y

\* a function over 1..n as a tuple
Tup(f) == f \o <<>>
ZeroN(n) == Tup([i \in 1..n |-> 0])
ZeroMag == ZeroN(L)
\* the small non-negative integer k (k < B) as a magnitude
SmallMag(k) == Tup([i \in 1..L |-> IF i = L THEN k ELSE 0])
\* x widened to n limbs
Pad(x, n) == Tup([i \in 1..n |-> IF i <= Len(x) THEN x[i] ELSE 0])

RECURSIVE TopFrom(_, _)
TopFrom(x, k) == IF k = 0 THEN 0 ELSE IF x[k] # 0 THEN k ELSE TopFrom(x, k - 1)
\* index of the highest non-zero limb, 0 for zero
Top(x) == TopFrom(x, Len(x))

RECURSIVE LowFrom(_, _)
LowFrom(x, k) == IF k > Len(x) THEN Len(x) + 1 ELSE IF x[k] # 0 THEN k ELSE LowFrom(x, k + 1)
\* index of the lowest non-zero limb, Len(x)+1 for zero
Low(x) == LowFrom(x, 1)

RECURSIVE CmpFrom(_, _, _)
CmpFrom(x, y, k) ==
    IF k = 0 THEN 0
    ELSE IF x[k] > y[k] THEN 1
    ELSE IF x[k] < y[k] THEN -1
    ELSE CmpFrom(x, y, k - 1)
\* -1, 0, 1 as x < y, x = y, x > y (equal lengths)
NCmp(x, y) == CmpFrom(x, y, Len(x))

RECURSIVE AddAcc(_, _, _, _, _)
AddAcc(x, y, k, c, acc) ==
    IF k > Len(x) THEN acc
    ELSE LET s    == x[k] + y[k] + c
             acc1 == Append(acc, s % B)
         IN IF Len(acc1) = k THEN AddAcc(x, y, k + 1, s \div B, acc1) ELSE <<>>
NAdd(x, y) == AddAcc(x, y, 1, 0, <<>>)

RECURSIVE SubAcc(_, _, _, _, _)
SubAcc(x, y, k, br, acc) ==
    IF k > Len(x) THEN acc
    ELSE LET s    == x[k] - y[k] - br
             acc1 == Append(acc, IF s < 0 THEN s + B ELSE s)
         IN IF Len(acc1) = k THEN SubAcc(x, y, k + 1, IF s < 0 THEN 1 ELSE 0, acc1)
            ELSE <<>>
\* x - y for x >= y
NSub(x, y) == SubAcc(x, y, 1, 0, <<>>)

RECURSIVE MulSmallAcc(_, _, _, _, _)
MulSmallAcc(x, m, k, c, acc) ==
    IF k > Len(x) THEN acc
    ELSE LET s    == x[k] * m + c
             acc1 == Append(acc, s % B)
         IN IF Len(acc1) = k THEN MulSmallAcc(x, m, k + 1, s \div B, acc1) ELSE <<>>
\* x * m for a machine integer m, same number of limbs
NMulSmall(x, m) == MulSmallAcc(x, m, 1, 0, <<>>)

RECURSIVE DivSmallAcc(_, _, _, _, _)
DivSmallAcc(x, m, k, r, acc) ==
    IF k = 0 THEN acc
    ELSE LET s    == r * B + x[k]
             acc1 == <<s \div m>> \o acc
         IN IF Len(acc1) > 0 THEN DivSmallAcc(x, m, k - 1, s % m, acc1) ELSE <<>>
\* floor(x / m) for a machine integer m > 0
NDivSmall(x, m) == DivSmallAcc(x, m, Len(x), 0, <<>>)

RECURSIVE ColSum(_, _, _, _, _)
ColSum(x, y, k, i, hi) ==
    IF i > hi THEN 0 ELSE x[i] * y[k + 1 - i] + ColSum(x, y, k, i + 1, hi)

RECURSIVE MulAcc(_, _, _, _, _, _, _, _, _)
MulAcc(x, y, lx, hx, ly, hy, k, c, acc) ==
    IF k > WorkLimbs + L THEN acc
    ELSE LET s    == ColSum(x, y, k, Max(lx, k + 1 - hy), Min(hx, k + 1 - ly)) + c
             acc1 == IF k > WorkLimbs THEN Append(acc, s % B) ELSE acc
         IN IF Len(acc1) >= 0 /\ s >= 0
            THEN MulAcc(x, y, lx, hx, ly, hy, k + 1, s \div B, acc1)
            ELSE <<>>
\* floor(x * y), the low WorkLimbs limbs of the exact product dropped
NMul(x, y) ==
    LET lx == Low(x)
        hx == Top(x)
        ly == Low(y)
        hy == Top(y)
    IN IF hx = 0 \/ hy = 0 THEN ZeroMag
       ELSE IF lx + ly > 0 THEN MulAcc(x, y, lx, hx, ly, hy, 1, 0, <<>>) ELSE <<>>

\* one pass of carry propagation: every limb but the top one is reduced into
\* 0..B-1 and its carry (negative for a borrow) is handed to the next limb
CarryPass(e) ==
    Tup([k \in 1..Len(e) |->
            (IF k = Len(e) THEN e[k] ELSE e[k] % B)
            + (IF k > 1 THEN e[k - 1] \div B ELSE 0)])

RECURSIVE Settle(_)
\* carries propagated until every limb below the top one is in 0..B-1; the top
\* limb keeps what is left over, negative when the value is negative
Settle(e) ==
    IF \A k \in 1..(Len(e) - 1) : e[k] >= 0 /\ e[k] < B THEN e
    ELSE Settle(CarryPass(e))

\* r - q * y on the low n limbs, the n-th limb negative when q * y > r
MulSub(r, y, q, n) == Settle(Tup([k \in 1..n |-> r[k] - q * y[k]]))

RECURSIVE FixSub(_, _, _, _)
\* <<q', r - q' * y>> for the largest q' <= q with q' * y <= r, where r and
\* q * y have no limb above the n-th
FixSub(r, y, q, n) ==
    IF q = 0 THEN <<0, r>>
    ELSE LET t == MulSub(r, y, q, n)
         IN IF t[n] >= 0 THEN <<q, Pad(t, Len(r))>> ELSE FixSub(r, y, q - 1, n)

\* an upper estimate of floor(r / y) < B from the leading limbs, hy = Top(y) > 0
QuotEst(r, y, hy) ==
    LET yt == y[hy] * B + (IF hy > 1 THEN y[hy - 1] ELSE 0)
        rt == r[hy + 1] * B * B + r[hy] * B + (IF hy > 1 THEN r[hy - 1] ELSE 0)
    IN Min(B - 1, (rt + 1) \div yt)

\* the k-th limb of x * B^WorkLimbs
NumLimb(x, k) == IF k > WorkLimbs /\ k <= WorkLimbs + L THEN x[k - WorkLimbs] ELSE 0

RECURSIVE DivAcc(_, _, _, _, _, _)
\* schoolbook long division of x * B^WorkLimbs by y, from limb k down
DivAcc(x, y, hy, k, r, acc) ==
    IF k = 0 THEN acc
    ELSE LET r1   == <<NumLimb(x, k)>> \o SubSeq(r, 1, L)
             qr   == FixSub(r1, y, QuotEst(r1, y, hy), Min(hy + 2, L + 1))
             acc1 == IF k <= L THEN <<qr[1]>> \o acc ELSE acc
         IN IF Len(qr) = 2 /\ Len(acc1) >= 0
            THEN DivAcc(x, y, hy, k - 1, qr[2], acc1)
            ELSE <<>>
\* floor(x / y) in fixed point, y # 0.  The leading Top(y) - 1 limbs of the
\* dividend are less than y, so the division starts with them as remainder.
NDiv(x, y) ==
    LET y1 == Pad(y, L + 1)
        hy == Top(y)
        k0 == WorkLimbs + L - (hy - 1)
        r0 == Tup([i \in 1..(L + 1) |-> IF i < hy THEN NumLimb(x, k0 + i) ELSE 0])
    IN IF Len(y1) > 0 /\ hy > 0 /\ Len(r0) > 0
       THEN DivAcc(x, y1, hy, k0, r0, <<>>)
       ELSE <<>>

RECURSIVE FixSqrt(_, _, _, _)
\* <<q', r - (t0 + q') * q'>> for the largest q' <= q that leaves it non-negative
FixSqrt(r, t0, q, n) ==
    IF q = 0 THEN <<0, r>>
    ELSE LET t == MulSub(r, [t0 EXCEPT ![1] = q], q, n)
         IN IF t[n] >= 0 THEN <<q, Pad(t, Len(r))>> ELSE FixSqrt(r, t0, q - 1, n)

\* floor(sqrt(v)) of a machine integer v < B * B
SmallSqrt(v) == CHOOSE q \in 0..(B - 1) : q * q <= v /\ v < (q + 1) * (q + 1)

RECURSIVE SqrtAcc(_, _, _, _)
\* schoolbook square root of x * B^WorkLimbs, two limbs of it for each limb of the
\* root: the next limb q is the largest with (2 * B * root + q) * q <= remainder
SqrtAcc(x, j, root, rem) ==
    IF j = 0 THEN root
    ELSE LET lo   == NumLimb(x, 2 * j - 1)
             hi   == NumLimb(x, 2 * j)
             r1   == <<lo, hi>> \o SubSeq(rem, 1, L + 1)
             t0   == Settle(Tup([k \in 1..(L + 3) |->
                        IF k > 1 /\ k - 1 <= Len(root) THEN 2 * root[k - 1] ELSE 0]))
             ht   == Top(t0)
             est  == IF ht = 0 THEN SmallSqrt(hi * B + lo) ELSE QuotEst(r1, t0, ht)
             qr   == IF ht = 0
                     THEN <<est, Pad(<<(hi * B + lo - est * est) % B,
                                       (hi * B + lo - est * est) \div B>>, L + 3)>>
                     ELSE FixSqrt(r1, t0, est, Min(ht + 2, L + 3))
             rt1  == <<qr[1]>> \o root
         IN IF Len(qr) = 2 /\ Len(rt1) > 0
            THEN SqrtAcc(x, j - 1, rt1, qr[2])
            ELSE <<>>
\* floor(sqrt(x)) in fixed point
NSqrt(x) == SqrtAcc(x, L, <<>>, ZeroN(L + 3))

(***************************************************************************)
(* The provider's operations on signed values [neg, m].                    *)
(***************************************************************************)
Norm(neg, m) == [neg |-> neg /\ Top(m) # 0, m |-> m]
MpfZero == [neg |-> FALSE, m |-> ZeroMag]
mpf_set_ui(k) == [neg |-> FALSE, m |-> SmallMag(k)]
mpf_add(x, y) ==
    IF x.neg = y.neg THEN Norm(x.neg, NAdd(x.m, y.m))
    ELSE IF NCmp(x.m, y.m) >= 0 THEN Norm(x.neg, NSub(x.m, y.m))
    ELSE Norm(y.neg, NSub(y.m, x.m))
mpf_sub(x, y) == mpf_add(x, [neg |-> ~y.neg, m |-> y.m])
mpf_mul(x, y) == Norm(x.neg # y.neg, NMul(x.m, y.m))
mpf_mul_ui(x, k) == Norm(x.neg, NMulSmall(x.m, k))
mpf_div_ui(x, k) == Norm(x.neg, NDivSmall(x.m, k))
mpf_div(x, y) == Norm(x.neg # y.neg, NDiv(x.m, y.m))
mpf_sqrt(x) == [neg |-> FALSE, m |-> NSqrt(x.m)]
mpf_abs(x) == [neg |-> FALSE, m |-> x.m]
\* mpf_set_d(t, 0.25): 0.25 is exact in binary and in decimal
Quarter == mpf_div_ui(mpf_set_ui(1), 4)

\* the threshold of the convergence test, 1e-50
EpsExp == 50
EpsMag ==
    Tup([i \in 1..L |-> IF i = ((FracDigits - EpsExp) \div 3) + 1
                        THEN 10 ^ ((FracDigits - EpsExp) % 3) ELSE 0])
\* mpf_cmp_d(x, 1e-50) < 0
BelowEps(x) == (x.neg /\ Top(x.m) # 0) \/ NCmp(x.m, EpsMag) < 0

(***************************************************************************)
(* PrecisionPlanner: the argument of mpf_set_default_prec, the integer     *)
(* part of digits * 3.322 + 10000.  The double product is equal to the     *)
(* exact one below for every digits in 1 .. MAX_DIGITS + 1.                *)
(***************************************************************************)
\* the plan kept in a 24-bit field
PlanBits_wrap(d) ==
    (d * 3 + (d \div 1000) * 322 + ((d % 1000) * 322) \div 1000 + PrecMargin) % (2 ^ 24)
PlanBits(d) ==
    d * 3 + (d \div 1000) * 322 + ((d % 1000) * 322) \div 1000 + PrecMargin

(***************************************************************************)
(* gmp_snprintf(buf, size, "%.*Ff", n, v): the value rounded to n digits    *)
(* after the radix character of the locale, written as a C string.         *)
(***************************************************************************)
NUL == "NUL"
Indeterminate == "?"
DigitChars == <<"0", "1", "2", "3", "4", "5", "6", "7", "8", "9">>
DigitChar(d) == DigitChars[d + 1]
IsDigitChar(c) == \E d \in 1..10 : DigitChars[d] = c

\* the j-th digit after the point, j in 1..FracDigits
FracDigitAt(m, j) ==
    (m[WorkLimbs - ((j - 1) \div 3)] \div (10 ^ (2 - ((j - 1) % 3)))) % 10
\* the integer limb k < B in decimal, no leading zeros
IntChars(k) ==
    IF k >= 100 THEN <<DigitChar(k \div 100), DigitChar((k \div 10) % 10), DigitChar(k % 10)>>
    ELSE IF k >= 10 THEN <<DigitChar(k \div 10), DigitChar(k % 10)>>
    ELSE <<DigitChar(k)>>
\* five units of the digit after the n-th
HalfUnit(n) ==
    Tup([i \in 1..L |-> IF i = ((FracDigits - n - 1) \div 3) + 1
                        THEN 5 * (10 ^ ((FracDigits - n - 1) % 3)) ELSE 0])
\* round to nearest at n digits
RoundMag(m, n) == IF n >= FracDigits THEN m ELSE NAdd(m, HalfUnit(n))
Render(v, n, point) ==
    LET r == RoundMag(v.m, n)
    IN (IF v.neg THEN <<"-">> ELSE <<>>)
       \o IntChars(r[L]) \o <<point>>
       \o Tup([j \in 1..n |-> IF j <= FracDigits THEN DigitChar(FracDigitAt(r, j)) ELSE "0"])
\* at most size-1 characters of text and the terminator, the rest untouched
Snprintf(b, size, text) ==
    LET n == Min(Len(text), size - 1)
    IN Tup([i \in 1..Len(b) |-> IF i <= n THEN text[i]
                                ELSE IF i = n + 1 THEN NUL ELSE b[i]])

RECURSIVE NulFrom(_, _)
\* index of the first terminator at or after i
NulFrom(b, i) == IF i > Len(b) THEN Len(b) + 1 ELSE IF b[i] = NUL THEN i ELSE NulFrom(b, i + 1)
\* strlen of the string that starts at index i
StrLenAt(b, i) == NulFrom(b, i) - i
RECURSIVE ChrFrom(_, _, _)
ChrFrom(b, c, i) ==
    IF i > Len(b) \/ b[i] = NUL THEN 0 ELSE IF b[i] = c THEN i ELSE ChrFrom(b, c, i + 1)
\* strchr(b, c): the index of the first c, 0 for a null pointer
StrChr(b, c) == ChrFrom(b, c, 1)
\* the C string held in b
CStr(b) == SubSeq(b, 1, NulFrom(b, 1) - 1)
\* memmove(b, b + from - 1, n): n bytes from index from to index 1
MemMove(b, from, n) ==
    Tup([i \in 1..Len(b) |-> IF i <= n THEN b[from + i - 1] ELSE b[i]])
\* the normalisation that follows gmp_snprintf
StripPrefix(b, d) ==
    LET dot == StrChr(b, ".")
    IN IF dot # 0
       THEN [MemMove(b, dot + 1, StrLenAt(b, dot)) EXCEPT ![d + 1] = NUL]
       ELSE b

(***************************************************************************)
(* The state of one run of one of the two programs.                        *)
(***************************************************************************)
VARIABLES
    kernel,          \* which program runs: "iterative" or "series"
    caller,          \* "main" (single run), "keep" (main with --keep), or "direct"
                     \* for a call of calculate_pi_digits alone
    decimal_point,   \* the radix character gmp_snprintf took from the locale, "" before
    pc,              \* position of the run
    digits,          \* calculate_pi_digits' argument digits
    result,          \* its argument result: "NULL" or the address of pi_result
    default_prec,    \* the provider's default precision, 0 while never set
    mpf,             \* the mpf_t locals of calculate_pi_digits
    inits,           \* name -> number of mpf_init calls
    clears,          \* name -> number of mpf_clear calls
    iterations,      \* the round counter of the iterative kernel
    i,               \* the term index of the series kernel
    keep_running,    \* the flag the SIGINT handler clears
    sigint_in_loop,  \* history: the handler ran while the round loop was running
    pi_result,       \* main's char *pi_result: "NULL", "buf" or "freed"
    buf,             \* the malloc'ed bytes pi_result points to
    calculated,      \* the value calculate_pi_digits returned
    files,           \* the files save_pi_to_file wrote
    last_shown,      \* static uint64_t last_shown of the progress display
    shown,           \* the milestones printed so far
    exit_code,       \* main's return value, -1 while running
    peer             \* cross-validation: the digit string the other kernel returned

vars == <<kernel, caller, decimal_point, pc, digits, result, default_prec, mpf, inits,
          clears, iterations, i, keep_running, sigint_in_loop, pi_result, buf,
          calculated, files, last_shown, shown, exit_code, peer>>

IterNames == {"a", "b", "t", "p", "a_next", "b_next", "t_next", "pi", "temp1", "temp2"}
SeriesNames == {"pi", "term1", "term2", "sum", "x1", "x2", "x1_pow", "x2_pow", "temp"}
Names(k) == IF k = "iterative" THEN IterNames ELSE SeriesNames

\* digit counts small enough for the fixed-point values to carry digits + 2 digits
SmallDigits == 2
ModelDigits == (1..SmallDigits) \cup {11, 20, 84}
\* what main passes on: the iterative program checks the range itself (line 112),
\* the series program only rejects 0 (line 68)
MainDigits(k) == IF k = "iterative" THEN ModelDigits ELSE ModelDigits \cup {MAX_DIGITS + 1}
DirectDigits == {0, 1, MAX_DIGITS + 1}

\* everything but the program, its caller, the arguments and the position
Blank ==
    /\ decimal_point = ""
    /\ default_prec = 0
    /\ mpf = [n \in Names(kernel) |-> MpfZero]
    /\ inits = [n \in Names(kernel) |-> 0]
    /\ clears = [n \in Names(kernel) |-> 0]
    /\ iterations = 0
    /\ i = 0
    /\ keep_running = 1
    /\ sigint_in_loop = FALSE
    /\ pi_result = "NULL"
    /\ buf = <<>>
    /\ calculated = 0
    /\ files = {}
    /\ last_shown = 0
    /\ shown = <<>>
    /\ exit_code = -1
    /\ peer = <<>>

Init ==
    /\ kernel \in {"iterative", "series"}
    /\ caller \in {"main", "direct"}
    /\ IF caller = "main"
       THEN digits \in MainDigits(kernel) /\ result = "pi_result"
       ELSE digits \in DirectDigits /\ result \in {"NULL", "pi_result"}
    /\ pc = "call"
    /\ Blank

\* the argument check without its upper limit
InvalidArgs_noMax(d, r) == r = "NULL" \/ d <= 0
\* if (!result || digits <= 0 || digits > MAX_DIGITS) return 0;
InvalidArgs(d, r) == r = "NULL" \/ d <= 0 \/ d > MAX_DIGITS

\* mpf_init of every local
InitAll == [n \in Names(kernel) |-> inits[n] + 1]
\* an allocation-failure path that forgets the temporaries
ClearOnFailure_leak ==
    [n \in Names(kernel) |-> IF n \in {"temp", "temp1", "temp2"} THEN clears[n]
                             ELSE clears[n] + 1]
\* the mpf_clear calls of the allocation-failure path
ClearOnFailure == [n \in Names(kernel) |-> clears[n] + 1]
\* the mpf_clear calls before return digits
ClearAtEnd == [n \in Names(kernel) |-> clears[n] + 1]

\* the initial values of the Gauss-Legendre iteration
IterStart ==
    [n \in IterNames |->
        CASE n = "a" -> mpf_set_ui(1)
          [] n = "b" -> mpf_div_ui(mpf_sqrt(mpf_set_ui(2)), 2)
          [] n = "p" -> mpf_set_ui(1)
          [] n = "t" -> Quarter
          [] n = "temp1" -> mpf_set_ui(2)
          [] OTHER -> MpfZero]
\* the parameters of Machin's formula and the start of the first series
SeriesStart ==
    LET x1 == mpf_div_ui(mpf_set_ui(1), 5)
        x2 == mpf_div_ui(mpf_set_ui(1), 239)
    IN [n \in SeriesNames |->
        CASE n = "x1" -> x1
          [] n = "x2" -> x2
          [] n = "x1_pow" -> x1
          [] OTHER -> MpfZero]

\* calculate_pi_digits from its entry to the head of the first loop
Enter ==
    /\ pc = "call"
    /\ IF InvalidArgs(digits, result)
       THEN /\ pc' = "returned"
            /\ calculated' = 0
            /\ UNCHANGED <<default_prec, mpf, inits>>
       ELSE /\ default_prec' = PlanBits(digits)
            /\ inits' = InitAll
            /\ mpf' = IF kernel = "iterative" THEN IterStart ELSE SeriesStart
            /\ pc' = IF kernel = "iterative" THEN "loop" ELSE "atan1"
            /\ UNCHANGED calculated
    /\ UNCHANGED <<peer, kernel, caller, decimal_point, digits, result, clears, iterations, i,
                   keep_running, sigint_in_loop, pi_result, buf, files, last_shown,
                   shown, exit_code>>

RECURSIVE Milestone(_, _, _, _)
\* the same scan without the comparison with last_shown
Milestone_noLast(power_of_two, d, estimated_digits, last) ==
    IF power_of_two <= d /\ power_of_two <= estimated_digits
    THEN IF estimated_digits >= power_of_two /\ estimated_digits < power_of_two * 2
         THEN power_of_two
         ELSE Milestone(power_of_two * 2, d, estimated_digits, last)
    ELSE 0
\* the inner while of the progress display: the power of two printed, 0 for none
Milestone(power_of_two, d, estimated_digits, last) ==
    IF power_of_two <= d /\ power_of_two <= estimated_digits
    THEN IF estimated_digits >= power_of_two /\ estimated_digits < power_of_two * 2
            /\ power_of_two # last
         THEN power_of_two
         ELSE Milestone(power_of_two * 2, d, estimated_digits, last)
    ELSE 0

\* the progress display of round iter: the milestone printed, 0 for none
ProgressShown(iter, d, last) ==
    IF iter % 10 = 0 THEN Milestone(128, d, iter * 2, last) ELSE 0

\* one pass through the body of while (1)
GLRound ==
    /\ pc = "loop"
    /\ LET a_next == mpf_div_ui(mpf_add(mpf.a, mpf.b), 2)
           b_next == mpf_sqrt(mpf_mul(mpf.a, mpf.b))
           temp2  == LET d == mpf_sub(a_next, mpf.a) IN mpf_mul(d, d)
           t_next == mpf_sub(mpf.t, mpf_mul(mpf.p, temp2))
           p      == mpf_mul_ui(mpf.p, 2)
           temp1  == mpf_abs(mpf_sub(a_next, b_next))
           m1     == [mpf EXCEPT !.a_next = a_next, !.b_next = b_next, !.t_next = t_next,
                                 !.p = p, !.temp1 = temp1, !.temp2 = temp2]
           shows  == ProgressShown(iterations + 1, digits, last_shown)
       IN /\ iterations' = iterations + 1
          /\ IF BelowEps(temp1)
             THEN /\ mpf' = m1
                  /\ pc' = "final"
                  /\ UNCHANGED <<last_shown, shown>>
             ELSE /\ mpf' = [m1 EXCEPT !.a = a_next, !.b = b_next, !.t = t_next]
                  /\ pc' = "loop"
                  /\ last_shown' = IF shows # 0 THEN shows ELSE last_shown
                  /\ shown' = IF shows # 0 THEN Append(shown, shows) ELSE shown
    /\ UNCHANGED <<peer, kernel, caller, decimal_point, digits, result, default_prec, inits,
                   clears, i, keep_running, sigint_in_loop, pi_result, buf, calculated,
                   files, exit_code>>

\* pi = (a + b)^2 / (4 t), from the a, b, t the loop left
GLFinal ==
    /\ pc = "final"
    /\ LET s     == mpf_add(mpf.a, mpf.b)
           temp2 == mpf_mul(s, s)
           temp1 == mpf_mul_ui(mpf.t, 4)
       IN mpf' = [mpf EXCEPT !.temp1 = temp1, !.temp2 = temp2, !.pi = mpf_div(temp2, temp1)]
    /\ pc' = "alloc"
    /\ UNCHANGED <<peer, kernel, caller, decimal_point, digits, result, default_prec, inits,
                   clears, iterations, i, keep_running, sigint_in_loop, pi_result, buf,
                   calculated, files, last_shown, shown, exit_code>>

\* a loop body that adds every term, whatever the parity of k
ArctanStep_noAlt(m, x, pow, k) ==
    LET temp == mpf_div_ui(m[pow], 2 * k + 1)
        t2   == mpf_mul(m[pow], m[x])
    IN [m EXCEPT !.sum = mpf_add(m.sum, temp), !.temp = t2, ![pow] = mpf_mul(t2, m[x])]
\* the body of either for loop: term k of the series in sum, pow advanced by x^2
ArctanStep(m, x, pow, k) ==
    LET temp == mpf_div_ui(m[pow], 2 * k + 1)
        sum  == IF k % 2 = 0 THEN mpf_add(m.sum, temp) ELSE mpf_sub(m.sum, temp)
        t2   == mpf_mul(m[pow], m[x])
    IN [m EXCEPT !.sum = sum, !.temp = t2, ![pow] = mpf_mul(t2, m[x])]

\* one term of arctan(1/5)
SeriesTerm1 ==
    /\ pc = "atan1"
    /\ i < digits + ExtraTerms
    /\ mpf' = ArctanStep(mpf, "x1", "x1_pow", i)
    /\ i' = i + 1
    /\ UNCHANGED <<peer, kernel, caller, decimal_point, pc, digits, result, default_prec, inits,
                   clears, iterations, keep_running, sigint_in_loop, pi_result, buf,
                   calculated, files, last_shown, shown, exit_code>>

\* between the loops: term1 = 4 * sum, sum reset, the second power started
SeriesMid ==
    /\ pc = "atan1"
    /\ ~(i < digits + ExtraTerms)
    /\ mpf' = [mpf EXCEPT !.term1 = mpf_mul_ui(mpf.sum, 4), !.sum = mpf_set_ui(0),
                          !.x2_pow = mpf.x2]
    /\ i' = 0
    /\ pc' = "atan2"
    /\ UNCHANGED <<peer, kernel, caller, decimal_point, digits, result, default_prec, inits,
                   clears, iterations, keep_running, sigint_in_loop, pi_result, buf,
                   calculated, files, last_shown, shown, exit_code>>

\* one term of arctan(1/239)
SeriesTerm2 ==
    /\ pc = "atan2"
    /\ i < digits + ExtraTerms
    /\ mpf' = ArctanStep(mpf, "x2", "x2_pow", i)
    /\ i' = i + 1
    /\ UNCHANGED <<peer, kernel, caller, decimal_point, pc, digits, result, default_prec, inits,
                   clears, iterations, keep_running, sigint_in_loop, pi_result, buf,
                   calculated, files, last_shown, shown, exit_code>>

\* after the second loop: term2 = sum, pi = 4 * (term1 - term2)
SeriesCombine ==
    /\ pc = "atan2"
    /\ ~(i < digits + ExtraTerms)
    /\ mpf' = [mpf EXCEPT !.term2 = mpf.sum,
                          !.pi = mpf_mul_ui(mpf_sub(mpf.term1, mpf.sum), 4)]
    /\ pc' = "alloc"
    /\ UNCHANGED <<peer, kernel, caller, decimal_point, digits, result, default_prec, inits,
                   clears, iterations, i, keep_running, sigint_in_loop, pi_result, buf,
                   calculated, files, last_shown, shown, exit_code>>

\* *result = malloc(digits + 10), and the failure path
Alloc ==
    /\ pc = "alloc"
    /\ \E ok \in BOOLEAN :
         IF ok
         THEN /\ pi_result' = "buf"
              /\ buf' = Tup([k \in 1..(digits + 10) |-> Indeterminate])
              /\ pc' = "render"
              /\ UNCHANGED <<clears, calculated>>
         ELSE /\ pi_result' = "NULL"
              /\ clears' = ClearOnFailure
              /\ calculated' = 0
              /\ pc' = "returned"
              /\ UNCHANGED buf
    /\ UNCHANGED <<peer, kernel, caller, decimal_point, digits, result, default_prec, mpf, inits,
                   iterations, i, keep_running, sigint_in_loop, files, last_shown, shown,
                   exit_code>>

\* the radix characters a locale can give: main calls setlocale(LC_ALL, ""), so the
\* environment decides; a direct call runs in the "C" locale.  Only gmp_snprintf
\* reads the locale, so the model draws the character there.
RadixChars(c) == IF c = "main" THEN {".", ","} ELSE {"."}

\* gmp_snprintf(*result, digits + 10, "%.*Ff", (int)digits + 1, pi)
RenderPi ==
    /\ pc = "render"
    /\ \E point \in RadixChars(caller) :
         /\ decimal_point' = point
         /\ buf' = Snprintf(buf, digits + 10, Render(mpf.pi, digits + 1, point))
    /\ pc' = "strip"
    /\ UNCHANGED <<peer, kernel, caller, digits, result, default_prec, mpf, inits,
                   clears, iterations, i, keep_running, sigint_in_loop, pi_result,
                   calculated, files, last_shown, shown, exit_code>>

\* strchr, memmove, the terminator at digits, the mpf_clear calls, return digits
Strip ==
    /\ pc = "strip"
    /\ buf' = StripPrefix(buf, digits)
    /\ clears' = ClearAtEnd
    /\ calculated' = digits
    /\ pc' = "returned"
    /\ UNCHANGED <<peer, kernel, caller, decimal_point, digits, result, default_prec, mpf, inits,
                   iterations, i, keep_running, sigint_in_loop, pi_result, files,
                   last_shown, shown, exit_code>>

\* save_pi_to_file(pi_str, digits): "3." and digits characters of pi_str
SavedFile(b, d) == [digits |-> d, text |-> <<"3", ".">> \o SubSeq(b, 1, d)]

\* main after the call, single-run mode of either program
MainAfter ==
    /\ pc = "returned"
    /\ caller = "main"
    /\ IF calculated > 0 /\ pi_result # "NULL"
       THEN /\ \E fopen_ok \in BOOLEAN :
                 files' = IF fopen_ok THEN files \cup {SavedFile(buf, calculated)} ELSE files
            /\ pi_result' = "freed"
            /\ exit_code' = 0
       ELSE /\ pi_result' = IF kernel = "iterative" /\ pi_result # "NULL"
                            THEN "freed" ELSE pi_result
            /\ exit_code' = IF kernel = "iterative" THEN 1 ELSE 0
            /\ UNCHANGED files
    /\ pc' = "exit"
    /\ UNCHANGED <<peer, kernel, caller, decimal_point, digits, result, default_prec, mpf, inits,
                   clears, iterations, i, keep_running, sigint_in_loop, buf, calculated,
                   last_shown, shown>>

\* SIGINT delivered to the iterative program, whose main registered the handler
signal_handler ==
    /\ kernel = "iterative"
    /\ caller \in {"main", "keep"}
    /\ pc # "exit"
    /\ keep_running = 1
    /\ keep_running' = 0
    /\ sigint_in_loop' = (pc = "loop")
    /\ UNCHANGED <<peer, kernel, caller, decimal_point, pc, digits, result, default_prec, mpf,
                   inits, clears, iterations, i, pi_result, buf, calculated, files,
                   last_shown, shown, exit_code>>

Next ==
    \/ Enter
    \/ GLRound
    \/ GLFinal
    \/ SeriesTerm1
    \/ SeriesMid
    \/ SeriesTerm2
    \/ SeriesCombine
    \/ Alloc
    \/ RenderPi
    \/ Strip
    \/ MainAfter
    \/ signal_handler

Spec == Init /\ [][Next]_vars

(***************************************************************************)
(* Cross-validation: the iterative kernel, then the series kernel, called  *)
(* with the same digits; peer keeps the first one's string.                *)
(***************************************************************************)
InitAgree ==
    /\ kernel = "iterative"
    /\ caller = "direct"
    /\ digits \in ModelDigits
    /\ result = "pi_result"
    /\ pc = "call"
    /\ Blank

\* the first string is kept and freed, the series kernel is called next
Handover ==
    /\ pc = "returned"
    /\ kernel = "iterative"
    /\ calculated = digits
    /\ peer = <<>>
    /\ peer' = CStr(buf)
    /\ kernel' = "series"
    /\ pc' = "call"
    /\ mpf' = [n \in SeriesNames |-> MpfZero]
    /\ inits' = [n \in SeriesNames |-> 0]
    /\ clears' = [n \in SeriesNames |-> 0]
    /\ pi_result' = "NULL"
    /\ buf' = <<>>
    /\ calculated' = 0
    /\ decimal_point' = ""
    /\ UNCHANGED <<caller, digits, result, default_prec, iterations, i, keep_running,
                   sigint_in_loop, files, last_shown, shown, exit_code>>

NextAgree ==
    \/ Enter
    \/ GLRound
    \/ GLFinal
    \/ SeriesTerm1
    \/ SeriesMid
    \/ SeriesTerm2
    \/ SeriesCombine
    \/ Alloc
    \/ RenderPi
    \/ Strip
    \/ Handover

SpecAgree == InitAgree /\ [][NextAgree]_vars

(***************************************************************************)
(* The precision plan alone, over digit counts spread through the valid    *)
(* range.                                                                  *)
(***************************************************************************)
PlanSpan == 12
PlanCentres ==
    {1, 1000, 65536, 500000, 1000000, 5000000, 5047000, 9999000, MAX_DIGITS}
PlanInputs ==
    {d \in UNION {(c - PlanSpan)..(c + PlanSpan) : c \in PlanCentres} :
        d >= 1 /\ d <= MAX_DIGITS}

InitPlan ==
    /\ kernel \in {"iterative", "series"}
    /\ caller = "direct"
    /\ digits \in PlanInputs
    /\ result = "pi_result"
    /\ pc = "plan"
    /\ Blank

\* mpf_set_default_prec(digits * 3.322 + 10000)
PlanApply ==
    /\ pc = "plan"
    /\ default_prec' = PlanBits(digits)
    /\ pc' = "planned"
    /\ UNCHANGED <<peer, kernel, caller, decimal_point, digits, result, mpf, inits,
                   clears, iterations, i, keep_running, sigint_in_loop, pi_result, buf,
                   calculated, files, last_shown, shown, exit_code>>

NextPlan == PlanApply

SpecPlan == InitPlan /\ [][NextPlan]_vars

(***************************************************************************)
(* The progress display alone, for loops of any length: the round counter  *)
(* and the block that follows the termination test, over and over, and     *)
(* calls that follow one another in the same process (last_shown is        *)
(* static, so a later call starts with the value the one before left).     *)
(***************************************************************************)
MaxRounds == 140
ProgressDigits == {100, 128, 200, 256, 300}

InitProgress ==
    /\ kernel = "iterative"
    /\ caller = "direct"
    /\ digits \in ProgressDigits
    /\ result = "pi_result"
    /\ pc = "progress"
    /\ Blank

\* iterations++ and the block if (iterations % 10 == 0) { ... } of one round
ProgressTick ==
    /\ pc = "progress"
    /\ iterations < MaxRounds
    /\ iterations' = iterations + 1
    /\ LET shows == ProgressShown(iterations + 1, digits, last_shown)
       IN /\ last_shown' = IF shows # 0 THEN shows ELSE last_shown
          /\ shown' = IF shows # 0 THEN Append(shown, shows) ELSE shown
    /\ UNCHANGED <<peer, kernel, caller, decimal_point, pc, digits, result, default_prec,
                   mpf, inits, clears, i, keep_running, sigint_in_loop, pi_result, buf,
                   calculated, files, exit_code>>

\* the loop ends and calculate_pi_digits is called again: unsigned long
\* iterations = 0, with last_shown as the call before left it
ProgressCall ==
    /\ pc = "progress"
    /\ iterations > 0
    /\ iterations' = 0
    /\ shown' = <<>>
    /\ UNCHANGED <<peer, kernel, caller, decimal_point, pc, digits, result, default_prec,
                   mpf, inits, clears, i, keep_running, sigint_in_loop, pi_result, buf,
                   calculated, files, last_shown, exit_code>>

NextProgress ==
    \/ ProgressTick
    \/ ProgressCall

SpecProgress == InitProgress /\ [][NextProgress]_vars

(***************************************************************************)
(* Keep mode of the iterative program (--keep): main calls the kernel at   *)
(* growing sizes until SIGINT.  digits is main's current_digits, the       *)
(* argument of each call.  At these sizes the call is taken by its         *)
(* outcome only: digits with a buffer, or 0 with a null pointer; the       *)
(* characters of the buffer are left out.                                  *)
(***************************************************************************)
KeepFirstSize == 1000

InitKeep ==
    /\ kernel = "iterative"
    /\ caller = "keep"
    /\ digits = KeepFirstSize
    /\ result = "pi_result"
    /\ pc = "keep_test"
    /\ Blank

\* while (keep_running) { char *pi_result = NULL; ...
KeepTest ==
    /\ pc = "keep_test"
    /\ IF keep_running = 1
       THEN /\ pc' = "keep_call"
            /\ pi_result' = "NULL"
            /\ calculated' = 0
            /\ UNCHANGED exit_code
       ELSE /\ pc' = "exit"
            /\ exit_code' = 0
            /\ UNCHANGED <<pi_result, calculated>>
    /\ UNCHANGED <<peer, kernel, caller, decimal_point, digits, result, default_prec, mpf,
                   inits, clears, iterations, i, keep_running, sigint_in_loop, buf, files,
                   last_shown, shown>>

\* what calculate_pi_digits(d, &pi_result) can return and leave in pi_result
CallOutcomes(d) ==
    IF InvalidArgs(d, "pi_result")
    THEN {[ret |-> 0, ptr |-> "NULL"]}
    ELSE {[ret |-> d, ptr |-> "buf"], [ret |-> 0, ptr |-> "NULL"]}

\* calculated = calculate_pi_digits(current_digits, &pi_result)
KeepCompute ==
    /\ pc = "keep_call"
    /\ \E out \in CallOutcomes(digits) :
         /\ calculated' = out.ret
         /\ pi_result' = out.ptr
    /\ pc' = "keep_check"
    /\ UNCHANGED <<peer, kernel, caller, decimal_point, digits, result, default_prec, mpf,
                   inits, clears, iterations, i, keep_running, sigint_in_loop, buf, files,
                   last_shown, shown, exit_code>>

\* the result check without the interrupt flag, as single-run mode has it
KeepGoesOn_noFlag(c, p, k) == c > 0 /\ p # "NULL"
\* if (calculated > 0 && pi_result && keep_running)
KeepGoesOn(c, p, k) == c > 0 /\ p # "NULL" /\ k = 1
\* current_digits *= 2; if (current_digits > MAX_DIGITS) current_digits = 1000;
KeepNextSize(d) == IF d * 2 > MAX_DIGITS THEN KeepFirstSize ELSE d * 2
\* the file save_pi_to_file writes for d digits, its digit characters left out
KeptFile(d) == [digits |-> d, text |-> <<"3", ".">>]

\* the result check, and after a saved result the next size and sleep(1)
KeepCheck ==
    /\ pc = "keep_check"
    /\ IF KeepGoesOn(calculated, pi_result, keep_running)
       THEN /\ \E fopen_ok \in BOOLEAN :
                 files' = IF fopen_ok THEN files \cup {KeptFile(calculated)} ELSE files
            /\ pi_result' = "freed"
            /\ digits' = KeepNextSize(digits)
            /\ pc' = "keep_test"
            /\ UNCHANGED exit_code
       ELSE /\ pi_result' = IF pi_result # "NULL" THEN "freed" ELSE pi_result
            /\ pc' = "exit"
            /\ exit_code' = 0
            /\ UNCHANGED <<files, digits>>
    /\ UNCHANGED <<peer, kernel, caller, decimal_point, result, default_prec, mpf, inits,
                   clears, iterations, i, keep_running, sigint_in_loop, buf, calculated,
                   last_shown, shown>>

NextKeep ==
    \/ KeepTest
    \/ KeepCompute
    \/ KeepCheck
    \/ signal_handler

SpecKeep == InitKeep /\ [][NextKeep]_vars

(***************************************************************************)
(* Reference values: the decimal digits after the point of pi, of          *)
(* 4 * arctan(1/5) and of arctan(1/239).                                   *)
(***************************************************************************)
PiDigits ==
    <<1, 4, 1, 5, 9, 2, 6, 5, 3, 5, 8, 9, 7, 9, 3, 2, 3, 8, 4, 6, 2, 6, 4, 3, 3, 8, 3, 2, 7, 9,
      5, 0, 2, 8, 8, 4, 1, 9, 7, 1, 6, 9, 3, 9, 9, 3, 7, 5, 1, 0, 5, 8, 2, 0, 9, 7, 4, 9, 4, 4,
      5, 9, 2, 3, 0, 7, 8, 1, 6, 4, 0, 6, 2, 8, 6, 2, 0, 8, 9, 9, 8, 6, 2, 8, 0, 3, 4, 8, 2, 5>>
FourAtan5Digits ==
    <<7, 8, 9, 5, 8, 2, 2, 3, 9, 3, 9, 9, 5, 2, 3, 0, 3, 3, 4, 8, 0, 1, 9, 9, 0, 6, 0, 7, 7, 9,
      1, 6, 1, 1, 7, 3, 7, 9, 0, 3, 4, 0, 4, 1, 5, 1, 5, 1, 4, 0, 8, 4, 0, 6, 0, 7, 0, 7, 5, 5,
      7, 6, 0, 9, 6, 4, 1, 3, 5, 8, 7, 9, 9, 1, 2, 9, 7, 5, 1, 4, 2, 9, 3, 0, 7, 9, 1, 3, 1, 2>>
Atan239Digits ==
    <<0, 0, 4, 1, 8, 4, 0, 7, 6, 0, 0, 2, 0, 7, 4, 7, 2, 3, 8, 6, 4, 5, 3, 8, 2, 1, 4, 9, 5, 9,
      2, 8, 5, 4, 5, 2, 7, 4, 1, 0, 4, 8, 0, 6, 5, 3, 0, 7, 6, 3, 1, 9, 5, 0, 8, 2, 7, 0, 1, 9,
      6, 1, 2, 8, 8, 7, 1, 8, 1, 7, 7, 8, 3, 4, 1, 4, 2, 2, 8, 9, 3, 2, 7, 3, 7, 8, 2, 6, 0, 5>>

\* digits at the end of a value that truncation may have touched
GuardDigits == 10
\* the first n digits after the point of m are those of ref
DigitsAgree(m, ref, n) == \A j \in 1..n : FracDigitAt(m, j) = ref[j]
\* k units in the last place, k < B * B
UlpsMag(k) ==
    Tup([j \in 1..L |-> IF j = 1 THEN k % B ELSE IF j = 2 THEN k \div B ELSE 0])
\* 0 <= x - y <= k units in the last place
Within(x, y, k) == NCmp(y, x) <= 0 /\ NCmp(NSub(x, y), UlpsMag(k)) <= 0

(***************************************************************************)
(* The claims.                                                             *)
(***************************************************************************)

C2_CancelledInLoop ==
    (sigint_in_loop /\ pc \in {"returned", "exit"}) => (calculated = 0 /\ files = {})

\* C3: no value is released without having been initialised or more than
\* once; when the call has returned, on any path, every initialised value has
\* been released; and a call that initialised its values and returned without
\* a buffer (malloc failed) returned 0 with *result null.
C3_ReleasedOnce ==
    /\ \A n \in Names(kernel) : clears[n] <= inits[n] /\ inits[n] <= 1
    /\ pc \in {"returned", "exit"} => \A n \in Names(kernel) : clears[n] = inits[n]
    /\ (pc \in {"returned", "exit"} /\ inits["pi"] = 1 /\ buf = <<>>)
       => (calculated = 0 /\ pi_result = "NULL")
\* C3 witness: a call returned on the allocation-failure path
C3_Witness ==
    pc = "returned" /\ buf = <<>> /\ inits["pi"] = 1 /\ clears["pi"] = 1

\* C4 as claimed: a non-zero return value D comes with a NUL-terminated
\* string of exactly D characters, each a decimal digit.
C4_ExactlyDigits ==
    (pc = "returned" /\ calculated # 0)
    => /\ Len(CStr(buf)) = calculated
       /\ \A k \in 1..Len(CStr(buf)) : IsDigitChar(buf[k])

\* C5 as claimed: the returned string is d1 ... dD, the first D digits after
\* the point of the value rendered, whatever digits follow.
C5_Truncates ==
    (pc = "returned" /\ calculated = digits /\ calculated > 0 /\ decimal_point = ".")
    => \A j \in 1..digits : buf[j] = DigitChar(FracDigitAt(mpf["pi"].m, j))

\* C6 as claimed: the value a kernel has when its loop has ended is pi to at
\* least D digits, and the string returned is the first D digits of pi.
C6_DigitsOfPi ==
    /\ (pc \in {"alloc", "render", "strip"})
       => DigitsAgree(mpf["pi"].m, PiDigits, digits)
    /\ (pc = "returned" /\ calculated = digits /\ calculated > 0 /\ decimal_point = ".")
       => CStr(buf) = SubSeq([j \in 1..Len(PiDigits) |-> DigitChar(PiDigits[j])], 1, digits)

\* C7 as claimed: for the same digits, the string of the series kernel is
\* the string of the iterative kernel.
C7_KernelsAgree ==
    (pc = "returned" /\ kernel = "series" /\ peer # <<>> /\ calculated = digits)
    => CStr(buf) = peer

\* C8: the precision planned for a digit count is at least the precision
\* planned for every smaller valid digit count.
C8_PlanMonotone ==
    pc = "planned"
    => /\ default_prec = PlanBits(digits)
       /\ \A d \in PlanInputs : d <= digits => PlanBits(d) <= default_prec
\* C8 witness: the plan of the maximum digit count has been computed
C8_Witness == pc = "planned" /\ digits = MAX_DIGITS /\ default_prec > PrecMargin

\* C9 as claimed: after any number of rounds, the exit round included, p is
\* 2^k and a, b, t are the values of round k, that is the a_next, b_next,
\* t_next that round k computed, k being the number of rounds run.
C9_SameRound ==
    (kernel = "iterative" /\ pc \in {"loop", "final"})
    => /\ mpf["p"] = mpf_set_ui(2 ^ iterations)
       /\ iterations > 0 => /\ mpf["a"] = mpf["a_next"]
                            /\ mpf["b"] = mpf["b_next"]
                            /\ mpf["t"] = mpf["t_next"]

\* the denominator of the argument of the evaluation the run is in
SeriesDen == IF pc = "atan1" THEN 5 ELSE 239
SeriesX == IF pc = "atan1" THEN "x1" ELSE "x2"
SeriesPow == IF pc = "atan1" THEN "x1_pow" ELSE "x2_pow"
InSeriesLoop == kernel = "series" /\ pc \in {"atan1", "atan2"}

\* in either loop: at most D + 1000 terms, the argument is 1 / SeriesDen, and
\* an evaluation starts with sum = 0 and the power accumulator at x
C10_LoopState ==
    InSeriesLoop
    => /\ i <= digits + ExtraTerms
       /\ mpf[SeriesX] = mpf_div_ui(mpf_set_ui(1), SeriesDen)
       /\ i = 0 => (mpf["sum"] = MpfZero /\ mpf[SeriesPow] = mpf[SeriesX])
\* after both loops: term1 is 4 * arctan(1/5) and term2 is arctan(1/239), to
\* every digit truncation leaves alone
C10_Sums ==
    (kernel = "series" /\ pc \in {"alloc", "render", "strip"})
    => /\ DigitsAgree(mpf["term1"].m, FourAtan5Digits, FracDigits - GuardDigits)
       /\ DigitsAgree(mpf["term2"].m, Atan239Digits, FracDigits - GuardDigits)
\* a loop is left only after term D + 999
C10_Exit == (InSeriesLoop /\ pc' # pc) => i = digits + ExtraTerms
\* iteration k took pow to pow1 and sum to sum1: the sum moved by
\* floor(pow / (2k+1)), up when k is even and down when k is odd, and pow was
\* multiplied by 1 / den^2 (up to the truncation of x and of two products)
TermApplied(pow, pow1, sum, sum1, den, k) ==
    LET step == mpf_sub(sum1, sum)
        back == NMulSmall(pow1, den * den)
        term == NMulSmall(step.m, 2 * k + 1)
    IN /\ Within(pow, back, 2 * den * den + 2 * den)
       /\ Within(pow, term, 2 * k)
       /\ Top(step.m) # 0 => step.neg = (k % 2 = 1)
\* every pass through a loop body is iteration i, applied as above
C10_Step ==
    (InSeriesLoop /\ pc' = pc /\ i' # i)
    => /\ i' = i + 1
       /\ TermApplied(mpf[SeriesPow].m, mpf'[SeriesPow].m, mpf["sum"], mpf'["sum"],
                      SeriesDen, i)
\* C10: each arctangent loop runs exactly D + 1000 iterations; at the start
\* of iteration i the power accumulator holds x^(2i+1); the term
\* x^(2i+1)/(2i+1) is added for even i and subtracted for odd i; the sum is
\* reset between the two evaluations; so each sum is the partial sum of the
\* arctangent series.
C10_SeriesLoops ==
    /\ [](C10_LoopState /\ C10_Sums)
    /\ [][C10_Exit /\ C10_Step]_vars
\* C10 witness: both loops of a 20-digit run have ended
C10_Witness ==
    kernel = "series" /\ pc = "alloc" /\ digits = 20 /\ i = digits + ExtraTerms

\* a power of two, 128 or more
IsMilestone(v) == \E e \in 7..30 : v = 2 ^ e
\* what one call has printed: milestones, none above digits, none twice
C11_Shown ==
    \A k \in 1..Len(shown) :
        /\ IsMilestone(shown[k])
        /\ shown[k] <= digits
        /\ \A j \in 1..(k - 1) : shown[j] # shown[k]
\* a step that prints leaves every mpf value as it was
C11_Emit == (Len(shown') > Len(shown)) => mpf' = mpf
C12_Sizes ==
    (caller = "keep" /\ pc \in {"keep_call", "keep_check"})
    => (digits >= 1000 /\ digits <= MAX_DIGITS)
\* the size before the first call
C12_First == caller = "keep" => digits = 1000
\* after a result check that goes on, the size is doubled, or 1000 again when
\* the double is above MAX_DIGITS; nothing else changes the size
C12_Grows ==
    IF pc = "keep_check" /\ pc' = "keep_test"
    THEN digits' = IF digits + digits > MAX_DIGITS THEN 1000 ELSE digits + digits
    ELSE digits' = digits
\* a result check that finds keep_running = 0 writes no file, frees the
\* result and ends the loop; and nothing runs after the loop
C12_Stops ==
    /\ (pc = "keep_check" /\ keep_running = 0 /\ pc' # pc)
       => (files' = files /\ pi_result' \in {"freed", "NULL"} /\ pc' = "exit")
    /\ (caller = "keep" /\ pc = "exit") => pc' = "exit"
\* C12: in keep mode every computation is requested at a size in
\* [1000, MAX_DIGITS] (1000 first, doubled after each saved result, 1000
\* again when the double exceeds MAX_DIGITS); once keep_running is 0 at the
\* result check, the result is freed without being written and no further
\* computation is started.
C12_KeepMode == C12_First /\ []C12_Sizes /\ [][C12_Grows /\ C12_Stops]_vars
\* C12 witness: after a full cycle of sizes, the computation at 1000 again was
\* interrupted, and the program ended with its result freed and not written
C12_Witness ==
    /\ caller = "keep" /\ pc = "exit" /\ keep_running = 0
    /\ digits = KeepFirstSize /\ calculated = digits /\ pi_result = "freed"
    /\ files = {KeptFile(8192000)}

====
